---- MODULE Spec2Model ----
(***************************************************************************)
(* Model of the terminal snake game in src/src/main.rs: main, World::run   *)
(* and the methods the loop calls, one action per method call of the loop. *)
(***************************************************************************)
EXTENDS Integers, Sequences, FiniteSets, TLC

VARIABLES
    pc,                     \* position in main / World::run
    term_w, term_h,         \* main's locals (max_x, max_y) returned by size()
    max_x, max_y,           \* World.max_x, World.max_y
    body, head_dir, score,  \* World.snake
    target,                 \* World.target as <<x, y>>
    update_target_position, \* World.update_target_position
    game_over,              \* World.game_over
    raw_mode, alt_screen, cursor_hidden,   \* terminal mode
    diagnostic,             \* eprintln of main has written the error line
    key,                    \* key processed by process_keypress in this tick
    failed,                 \* result of check_failure in this tick
    rendered,               \* refresh_screen cleared and redrew in this tick
    next_hit,               \* the head computed by snake_move was the target cell
    tick0,                  \* world state at the top of the current loop iteration
    delay_in, delay_out     \* argument and result of snake_move_delay

vars == <<pc, term_w, term_h, max_x, max_y, body, head_dir, score, target,
          update_target_position, game_over, raw_mode, alt_screen,
          cursor_hidden, diagnostic, key, failed, rendered, next_hit, tick0,
          delay_in, delay_out>>

world == <<max_x, max_y, body, head_dir, score, target,
           update_target_position, game_over>>
terminal == <<raw_mode, alt_screen, cursor_hidden, diagnostic>>
tickvars == <<key, failed, rendered, next_hit, tick0>>
delayvars == <<delay_in, delay_out>>

----------------------------------------------------------------------------
\* Bounds of the model

MaxTermW == 7       \* widest terminal size() reports
MaxTermH == 7       \* tallest terminal size() reports
MaxScore == 3       \* consumptions explored per game
MaxDelayScore == 160 \* largest score snake_move_delay is applied to

\* Program constants

MAX_MOVE_DELAY == 150
MIN_MOVE_DELAY == 50
min_x == 2
min_y == 2
MinTerm == 7        \* smallest terminal World::new can build a board from

U16 == 65536
U16Sub(a, b) == (a - b) % U16
U16Add(a, b) == (a + b) % U16

\* u64 subtraction. TLC's integers are 32 bits wide, so a wrapped difference
\* 2^64 - (b - a) is represented as IntTop - (b - a) + 1: it keeps its order
\* against every value the model compares it with.
IntTop == 2147483647
U64Sub(a, b) ==
    [val |-> IF a >= b THEN a - b ELSE IntTop - (b - a) + 1,
     underflow |-> b > a]

Directions == {"Up", "Down", "Right", "Left"}
Keys == {"none", "q", "w", "a", "s", "d", "enter", "other"}

NoCell == <<0, 0>>
NoDelay == [delay |-> 0, subtracted |-> FALSE, underflow |-> FALSE]

Snapshot == [game_over |-> game_over, body |-> body, head_dir |-> head_dir,
             score |-> score, target |-> target,
             dirty |-> update_target_position]

----------------------------------------------------------------------------
\* Snake::new, Target::new

Snake_new(head_x, head_y) ==
    [body |-> << <<head_x, head_y>>, <<U16Add(head_x, 1), head_y>> >>,
     head_dir |-> "Left",
     score |-> 0]

Target_new(lo_x, hi_x, lo_y, hi_y) ==
    {<<x, y>> : x \in lo_x..hi_x, y \in lo_y..hi_y}

----------------------------------------------------------------------------
\* Pure parts of World

\* snake_new_head wrapping Up and Left to max instead of max - 1
snake_new_head_wrap_to_max(b, d) ==
    LET head_x == b[1][1]
        head_y == b[1][2]
        new_head ==
            CASE d = "Up" ->
                   IF head_y = min_y THEN <<head_x, max_y>>
                                     ELSE <<head_x, U16Sub(head_y, 1)>>
              [] d = "Down" ->
                   IF head_y = U16Sub(max_y, 1) THEN <<head_x, U16Add(min_y, 1)>>
                                                ELSE <<head_x, U16Add(head_y, 1)>>
              [] d = "Left" ->
                   IF head_x = min_x THEN <<max_x, head_y>>
                                     ELSE <<U16Sub(head_x, 1), head_y>>
              [] d = "Right" ->
                   IF head_x = U16Sub(max_x, 1) THEN <<U16Add(min_x, 1), head_y>>
                                                ELSE <<U16Add(head_x, 1), head_y>>
    IN  <<new_head>> \o b

snake_new_head(b, d) ==
    LET head_x == b[1][1]
        head_y == b[1][2]
        new_head ==
            CASE d = "Up" ->
                   IF head_y = min_y THEN <<head_x, U16Sub(max_y, 1)>>
                                     ELSE <<head_x, U16Sub(head_y, 1)>>
              [] d = "Down" ->
                   IF head_y = U16Sub(max_y, 1) THEN <<head_x, U16Add(min_y, 1)>>
                                                ELSE <<head_x, U16Add(head_y, 1)>>
              [] d = "Left" ->
                   IF head_x = min_x THEN <<U16Sub(max_x, 1), head_y>>
                                     ELSE <<U16Sub(head_x, 1), head_y>>
              [] d = "Right" ->
                   IF head_x = U16Sub(max_x, 1) THEN <<U16Add(min_x, 1), head_y>>
                                                ELSE <<U16Add(head_x, 1), head_y>>
    IN  <<new_head>> \o b

\* snake_move with the pop left out
snake_move_no_pop(b, d) ==
    snake_new_head(b, d)

snake_move(b, d) ==
    LET grown == snake_new_head(b, d)
    IN  SubSeq(grown, 1, Len(grown) - 1)

check_failure(b) ==
    \E i \in 2..Len(b) : b[i] = b[1]

has_conflict(b, t) ==
    \E i \in 1..Len(b) : b[i] = t

\* the same function with the score > MAX_MOVE_DELAY test left out
snake_move_delay_unguarded(s) ==
    LET n == U64Sub(MAX_MOVE_DELAY, s)
    IN  [delay |-> IF n.val > MIN_MOVE_DELAY THEN n.val ELSE MIN_MOVE_DELAY,
         subtracted |-> TRUE,
         underflow |-> n.underflow]

snake_move_delay(s) ==
    IF s > MAX_MOVE_DELAY
    THEN [delay |-> MAX_MOVE_DELAY, subtracted |-> FALSE, underflow |-> FALSE]
    ELSE LET n == U64Sub(MAX_MOVE_DELAY, s)
         IN  [delay |-> IF n.val > MIN_MOVE_DELAY THEN n.val ELSE MIN_MOVE_DELAY,
              subtracted |-> TRUE,
              underflow |-> n.underflow]

\* the match guards of the movement arms of process_keypress
KeyDir(k) ==
    CASE k = "w" -> "Up"
      [] k = "a" -> "Left"
      [] k = "s" -> "Down"
      [] k = "d" -> "Right"

KeyBlockedBy(k) ==
    CASE k = "w" -> "Down"
      [] k = "a" -> "Right"
      [] k = "s" -> "Up"
      [] k = "d" -> "Left"

\* the arms with the reverse-direction test left out
move_arm_taken_no_reverse_test(k, cur_dir, over) ==
    k \in {"w", "a", "s", "d"} /\ ~over

move_arm_taken(k, cur_dir, over) ==
    k \in {"w", "a", "s", "d"} /\ cur_dir # KeyBlockedBy(k) /\ ~over

----------------------------------------------------------------------------
\* Initial state: the process has started, main has not run yet

Init ==
    /\ pc = "enable_raw"
    /\ term_w = 0 /\ term_h = 0
    /\ max_x = 0 /\ max_y = 0
    /\ body = <<>> /\ head_dir = "Left" /\ score = 0
    /\ target = NoCell
    /\ update_target_position = FALSE
    /\ game_over = FALSE
    /\ raw_mode = FALSE /\ alt_screen = FALSE /\ cursor_hidden = FALSE
    /\ diagnostic = FALSE
    /\ key = "none" /\ failed = FALSE /\ rendered = FALSE /\ next_hit = FALSE
    /\ tick0 = Snapshot
    /\ delay_in = 0 /\ delay_out = NoDelay

----------------------------------------------------------------------------
\* main, up to the call of World::run

\* enable_raw_mode().unwrap()
MainEnableRaw ==
    /\ pc = "enable_raw"
    /\ \E ok \in BOOLEAN :
         /\ raw_mode' = ok
         /\ pc' = IF ok THEN "size" ELSE "panic"
    /\ UNCHANGED <<term_w, term_h, world, alt_screen, cursor_hidden, diagnostic,
                   tickvars, delayvars>>

\* let (max_x, max_y) = size().unwrap()
MainSize ==
    /\ pc = "size"
    /\ \E ok \in BOOLEAN :
         IF ok
         THEN /\ term_w' \in MinTerm..MaxTermW
              /\ term_h' \in MinTerm..MaxTermH
              /\ pc' = "hide"
         ELSE /\ pc' = "panic"
              /\ UNCHANGED <<term_w, term_h>>
    /\ UNCHANGED <<world, terminal, tickvars, delayvars>>

\* execute!(stdout(), cursor::Hide, EnterAlternateScreen).unwrap()
MainHide ==
    /\ pc = "hide"
    /\ \E done \in 0..2 :
         /\ cursor_hidden' = (done >= 1)
         /\ alt_screen' = (done >= 2)
         /\ pc' = IF done = 2 THEN "new" ELSE "panic"
    /\ UNCHANGED <<term_w, term_h, world, raw_mode, diagnostic, tickvars, delayvars>>

\* World::new(max_x, max_y), then the first iteration of run's loop
World_new ==
    /\ pc = "new"
    /\ max_x' = U16Sub(term_w, 2)
    /\ max_y' = U16Sub(term_h, 2)
    /\ LET s == Snake_new(term_w \div 2, term_h \div 2)
       IN  /\ body' = s.body
           /\ head_dir' = s.head_dir
           /\ score' = s.score
    /\ target' \in Target_new(3, U16Sub(term_w, 4), 3, U16Sub(term_h, 4))
    /\ update_target_position' = TRUE
    /\ game_over' = FALSE
    /\ tick0' = [game_over |-> game_over', body |-> body', head_dir |-> head_dir',
                 score |-> score', target |-> target',
                 dirty |-> update_target_position']
    /\ pc' = "refresh"
    /\ UNCHANGED <<term_w, term_h, terminal, key, failed, rendered, next_hit, delayvars>>

----------------------------------------------------------------------------
\* World::run, one action per call of the loop body

\* draw_target sampling up to max_x and max_y
draw_target_to_edge(b, t, dirty) ==
    IF dirty /\ has_conflict(b, t)
    THEN {c \in Target_new(3, max_x, 3, max_y) : ~has_conflict(b, c)}
    ELSE {t}

\* draw_target with `if` in place of `while`: one resample, not tested again
draw_target_once(b, t, dirty) ==
    IF dirty /\ has_conflict(b, t)
    THEN Target_new(3, U16Sub(max_x, 1), 3, U16Sub(max_y, 1))
    ELSE {t}

\* the cells draw_target can leave the target on; empty when the resample
\* loop cannot end
draw_target(b, t, dirty) ==
    IF dirty /\ has_conflict(b, t)
    THEN {c \in Target_new(3, U16Sub(max_x, 1), 3, U16Sub(max_y, 1)) :
              ~has_conflict(b, c)}
    ELSE {t}

\* self.refresh_screen()?
RefreshScreen ==
    /\ pc = "refresh"
    /\ IF game_over
       THEN /\ pc' = "keypress"
            /\ rendered' = FALSE
            /\ UNCHANGED <<target, update_target_position>>
       ELSE \E io \in {"ok", "err_before_target", "err_at_flush"} :
              /\ IF io = "err_before_target"
                 THEN UNCHANGED <<target, update_target_position>>
                 ELSE /\ target' \in draw_target(body, target, update_target_position)
                      /\ update_target_position' = FALSE
              /\ rendered' = (io = "ok")
              /\ pc' = IF io = "ok" THEN "keypress" ELSE "eprintln"
    /\ delay_in' = 0 /\ delay_out' = NoDelay
    /\ UNCHANGED <<term_w, term_h, max_x, max_y, body, head_dir, score, game_over,
                   terminal, key, failed, next_hit, tick0>>

\* World::restart
restart ==
    /\ LET s == Snake_new(max_x \div 2, max_y \div 2)
       IN  /\ body' = s.body
           /\ head_dir' = s.head_dir
           /\ score' = s.score
    /\ target' \in Target_new(3, U16Sub(max_x, 2), 3, U16Sub(max_y, 2))
    /\ update_target_position' = TRUE
    /\ game_over' = FALSE

\* process_keypress: poll times out, or the event is no key, or no arm matches
KeypressIgnored ==
    /\ pc = "keypress"
    /\ key' \in {"none", "other"}
    /\ pc' = "move"
    /\ UNCHANGED <<term_w, term_h, world, terminal, failed, rendered, next_hit,
                   tick0, delayvars>>

\* process_keypress: read() fails
KeypressReadError ==
    /\ pc = "keypress"
    /\ pc' = "eprintln"
    /\ UNCHANGED <<term_w, term_h, world, terminal, tickvars, delayvars>>

\* process_keypress: the 'q' arm
KeypressQuit ==
    /\ pc = "keypress"
    /\ key' = "q"
    /\ \E done \in 0..3 :
         /\ cursor_hidden' = IF done >= 1 THEN FALSE ELSE cursor_hidden
         /\ alt_screen' = IF done >= 2 THEN FALSE ELSE alt_screen
         /\ raw_mode' = IF done >= 3 THEN FALSE ELSE raw_mode
         /\ pc' = IF done = 3 THEN "exit" ELSE "panic"
    /\ UNCHANGED <<term_w, term_h, world, diagnostic, failed, rendered, next_hit,
                   tick0, delayvars>>

\* process_keypress: the 'w', 'a', 's', 'd' arms
KeypressMove ==
    /\ pc = "keypress"
    /\ key' \in {"w", "a", "s", "d"}
    /\ head_dir' = IF move_arm_taken(key', head_dir, game_over)
                   THEN KeyDir(key') ELSE head_dir
    /\ pc' = "move"
    /\ UNCHANGED <<term_w, term_h, max_x, max_y, body, score, target,
                   update_target_position, game_over, terminal, failed, rendered,
                   next_hit, tick0, delayvars>>

\* process_keypress: the Enter arm
KeypressEnter ==
    /\ pc = "keypress"
    /\ key' = "enter"
    /\ restart
    /\ pc' = "move"
    /\ UNCHANGED <<term_w, term_h, max_x, max_y, terminal, failed, rendered,
                   next_hit, tick0, delayvars>>

\* self.snake_move()
SnakeMove ==
    /\ pc = "move"
    /\ body' = snake_move(body, head_dir)
    /\ next_hit' = (snake_new_head(body, head_dir)[1] = target)
    /\ pc' = "failure"
    /\ UNCHANGED <<term_w, term_h, max_x, max_y, head_dir, score, target,
                   update_target_position, game_over, terminal, key, failed,
                   rendered, tick0, delayvars>>

\* the banner's corner underflows u16 on a small board: a debug build panics
banner_underflows ==
    max_x \div 2 < 12 \/ max_y \div 2 < 2

\* the same step with check_failure comparing the head with the whole body,
\* itself included
CheckFailure_whole_body ==
    /\ pc = "failure"
    /\ failed' = has_conflict(body, body[1])
    /\ game_over' = TRUE
    /\ \E out \in {"ok", "io_err", "panic"} :
         /\ out = "panic" => banner_underflows
         /\ pc' = CASE out = "ok" -> "collision"
                    [] out = "io_err" -> "eprintln"
                    [] out = "panic" -> "panic"
    /\ UNCHANGED <<term_w, term_h, max_x, max_y, body, head_dir, score, target,
                   update_target_position, terminal, key, rendered, next_hit,
                   tick0, delayvars>>

\* if self.check_failure() { self.draw_failure_banner()?; }
CheckFailure ==
    /\ pc = "failure"
    /\ failed' = check_failure(body)
    /\ IF check_failure(body)
       THEN /\ game_over' = TRUE
            /\ \E out \in {"ok", "io_err", "panic"} :
                 /\ out = "panic" => banner_underflows
                 /\ pc' = CASE out = "ok" -> "collision"
                            [] out = "io_err" -> "eprintln"
                            [] out = "panic" -> "panic"
       ELSE /\ pc' = "collision"
            /\ UNCHANGED game_over
    /\ UNCHANGED <<term_w, term_h, max_x, max_y, body, head_dir, score, target,
                   update_target_position, terminal, key, rendered, next_hit,
                   tick0, delayvars>>

\* self.check_collision()
CheckCollision ==
    /\ pc = "collision"
    /\ IF body[1] = target
       THEN /\ score < MaxScore
            /\ body' = snake_new_head(body, head_dir)
            /\ score' = score + 1
            /\ update_target_position' = TRUE
       ELSE UNCHANGED <<body, score, update_target_position>>
    /\ pc' = "sleep"
    /\ UNCHANGED <<term_w, term_h, max_x, max_y, head_dir, target, game_over,
                   terminal, tickvars, delayvars>>

\* sleep(Duration::from_millis(self.snake_move_delay())), then the loop repeats
Sleep ==
    /\ pc = "sleep"
    /\ delay_in' = score
    /\ delay_out' = snake_move_delay(score)
    /\ key' = "none" /\ failed' = FALSE /\ rendered' = FALSE /\ next_hit' = FALSE
    /\ tick0' = Snapshot
    /\ pc' = "refresh"
    /\ UNCHANGED <<term_w, term_h, world, terminal>>

----------------------------------------------------------------------------
\* main, after World::run has returned an error

\* eprintln!("{e}")
MainEprintln ==
    /\ pc = "eprintln"
    /\ diagnostic' = TRUE
    /\ pc' = "restore"
    /\ UNCHANGED <<term_w, term_h, world, raw_mode, alt_screen, cursor_hidden,
                   tickvars, delayvars>>

\* execute!(stdout(), cursor::Show, LeaveAlternateScreen).unwrap()
MainRestore ==
    /\ pc = "restore"
    /\ \E done \in 0..2 :
         /\ cursor_hidden' = IF done >= 1 THEN FALSE ELSE cursor_hidden
         /\ alt_screen' = IF done >= 2 THEN FALSE ELSE alt_screen
         /\ pc' = IF done = 2 THEN "disable_raw" ELSE "panic"
    /\ UNCHANGED <<term_w, term_h, world, raw_mode, diagnostic, tickvars, delayvars>>

\* disable_raw_mode().unwrap()
MainDisableRaw ==
    /\ pc = "disable_raw"
    /\ \E ok \in BOOLEAN :
         /\ raw_mode' = IF ok THEN FALSE ELSE raw_mode
         /\ pc' = IF ok THEN "exit" ELSE "panic"
    /\ UNCHANGED <<term_w, term_h, world, alt_screen, cursor_hidden, diagnostic,
                   tickvars, delayvars>>

Next ==
    \/ MainEnableRaw
    \/ MainSize
    \/ MainHide
    \/ World_new
    \/ RefreshScreen
    \/ KeypressIgnored
    \/ KeypressReadError
    \/ KeypressQuit
    \/ KeypressMove
    \/ KeypressEnter
    \/ SnakeMove
    \/ CheckFailure
    \/ CheckCollision
    \/ Sleep
    \/ MainEprintln
    \/ MainRestore
    \/ MainDisableRaw

Spec == Init /\ [][Next]_vars

----------------------------------------------------------------------------
\* snake_move_delay applied to every score up to MaxDelayScore

InitDelay ==
    /\ pc = "delay_call"
    /\ term_w = 0 /\ term_h = 0
    /\ max_x = 0 /\ max_y = 0
    /\ body = <<>> /\ head_dir = "Left" /\ score = 0
    /\ target = NoCell
    /\ update_target_position = FALSE
    /\ game_over = FALSE
    /\ raw_mode = FALSE /\ alt_screen = FALSE /\ cursor_hidden = FALSE
    /\ diagnostic = FALSE
    /\ key = "none" /\ failed = FALSE /\ rendered = FALSE /\ next_hit = FALSE
    /\ tick0 = Snapshot
    /\ delay_in \in 0..MaxDelayScore
    /\ delay_out = NoDelay

ApplyDelay ==
    /\ pc = "delay_call"
    /\ delay_out' = snake_move_delay(delay_in)
    /\ pc' = "delay_done"
    /\ UNCHANGED <<term_w, term_h, world, terminal, tickvars, delay_in>>

NextDelay == ApplyDelay

SpecDelay == InitDelay /\ [][NextDelay]_vars

----------------------------------------------------------------------------
\* Properties

Opposite(d) ==
    CASE d = "Up" -> "Down"
      [] d = "Down" -> "Up"
      [] d = "Left" -> "Right"
      [] d = "Right" -> "Left"

MoveKeys == {"w", "a", "s", "d"}

OnBody(c) == \E i \in DOMAIN body : body[i] = c

HeadOnBody == \E i \in DOMAIN body : i > 1 /\ body[i] = body[1]

\* the tick that began in tick0 has run all of its steps
EndOfTick == pc = "sleep"

\* C1: the game starts Playing; game_over turns true only in the step that
\* evaluates check_failure to true, and turns false only in the step that
\* processes an Enter key.
C1_StateMachine ==
    [][ /\ (pc = "new" => ~game_over')
        /\ ((~game_over /\ game_over') => (pc = "failure" /\ HeadOnBody))
        /\ ((game_over /\ ~game_over') => (pc = "keypress" /\ key' = "enter")) ]_vars

\* a game that went over has been restarted with Enter
C1_Witness ==
    pc = "move" /\ key = "enter" /\ tick0.game_over /\ ~game_over

\* C2: at the end of every tick that began in Playing, a head that lies on
\* another body cell means the state is GameOver.
C2_CollisionOnResultingBody ==
    (EndOfTick /\ ~tick0.game_over /\ HeadOnBody) => game_over

\* C3: a tick that begins in GameOver and processes no Enter leaves the body,
\* the score, the target and the dirty flag as they were.
C3_FrozenInGameOver ==
    (EndOfTick /\ tick0.game_over /\ key # "enter") =>
        /\ body = tick0.body
        /\ score = tick0.score
        /\ target = tick0.target
        /\ update_target_position = tick0.dirty

\* C4: an Enter key processed in Playing leaves the body, the heading, the
\* score, the target and the dirty flag unchanged.
C4_RestartOnlyInGameOver ==
    [][ (pc = "keypress" /\ key' = "enter" /\ ~game_over) =>
            UNCHANGED <<body, head_dir, score, target, update_target_position>> ]_vars

\* C5: an Enter key processed in GameOver gives score 0, state Playing and
\* the snake World::new built: same head, same tail, heading Left.
C5_RestartRebuildsInitialSnake ==
    (pc = "move" /\ key = "enter" /\ tick0.game_over) =>
        /\ score = 0
        /\ ~game_over
        /\ head_dir = "Left"
        /\ body = << <<term_w \div 2, term_h \div 2>>,
                     <<(term_w \div 2) + 1, term_h \div 2>> >>

\* C6: a movement key changes head_dir only in Playing and only when the
\* requested direction is not the reverse of the heading.
C6_HeadDirGuard ==
    [][ (pc = "keypress" /\ key' \in MoveKeys) =>
            /\ (head_dir' # head_dir =>
                    (~game_over /\ KeyDir(key') # Opposite(head_dir)))
            /\ head_dir' \in {head_dir, KeyDir(key')} ]_vars

\* a reverse request in Playing has been processed and the heading kept
C6_Witness ==
    /\ pc = "move" /\ ~game_over /\ key \in MoveKeys
    /\ KeyDir(key) = Opposite(tick0.head_dir)
    /\ head_dir = tick0.head_dir

FlooredSub(a, b) == IF b > a THEN 0 ELSE a - b
MaxOf(a, b) == IF a > b THEN a ELSE b

\* C7: the delay is max(MIN_MOVE_DELAY, MAX_MOVE_DELAY - score), the
\* difference floored at 0, and no smaller score has a smaller delay.
C7_DelayIsClampedDifference ==
    pc = "delay_done" =>
        /\ delay_out.delay = MaxOf(MIN_MOVE_DELAY, FlooredSub(MAX_MOVE_DELAY, delay_in))
        /\ \A s1 \in 0..delay_in : snake_move_delay(s1).delay >= delay_out.delay

\* C8: the delay lies in MIN_MOVE_DELAY..MAX_MOVE_DELAY, is MAX_MOVE_DELAY at
\* score 0, and the subtraction is never evaluated with score > MAX_MOVE_DELAY.
C8_DelayInRange ==
    pc = "delay_done" =>
        /\ ~delay_out.underflow
        /\ (delay_out.subtracted => delay_in <= MAX_MOVE_DELAY)
        /\ delay_out.delay \in MIN_MOVE_DELAY..MAX_MOVE_DELAY
        /\ (delay_in = 0 => delay_out.delay = MAX_MOVE_DELAY)

\* the delay of a score above MAX_MOVE_DELAY has been computed
C8_Witness ==
    pc = "delay_done" /\ delay_in > MAX_MOVE_DELAY

\* C9: at the end of a tick in Playing with the dirty flag false, and after
\* every render pass in Playing, the target is on no body cell.
C9_TargetOffBody ==
    /\ (EndOfTick /\ ~game_over /\ ~update_target_position) => ~OnBody(target)
    /\ (pc = "keypress" /\ ~game_over /\ rendered) => ~OnBody(target)

\* a render pass has respawned a target the snake had eaten
C9_Witness ==
    /\ pc = "keypress" /\ ~game_over /\ rendered
    /\ tick0.dirty /\ OnBody(tick0.target) /\ score > 0
    /\ ~OnBody(target)

\* C10: a tick in Playing whose next head is the target cell adds 1 to the
\* score and to the length and sets the dirty flag; any other tick in Playing
\* leaves score and length unchanged.
C10_EatEffects ==
    (EndOfTick /\ ~tick0.game_over) =>
        IF next_hit
        THEN /\ score = tick0.score + 1
             /\ Len(body) = Len(tick0.body) + 1
             /\ update_target_position
        ELSE /\ score = tick0.score
             /\ Len(body) = Len(tick0.body)

NoDuplicates(b) == \A i, j \in DOMAIN b : i # j => b[i] # b[j]

\* C11: a tick in Playing that eats puts the head on the target cell and
\* drops no tail segment: the body is the target cell, then the whole body
\* the tick began with.
C11_GrowthKeepsWholeBody ==
    (EndOfTick /\ ~tick0.game_over /\ key # "enter" /\ next_hit) =>
        body = <<target>> \o tick0.body

\* C12: at the end of every tick that ends in Playing the body cells are
\* pairwise distinct.
C12_NoDuplicateCells ==
    (EndOfTick /\ ~game_over) => NoDuplicates(body)

----------------------------------------------------------------------------
\* snake_new_head applied again and again from every head cell of a board,
\* in every direction; body keeps the cells visited, the start cell last

WalkSteps(d) == 2 * (IF d \in {"Left", "Right"} THEN max_x - min_x
                                                ELSE max_y - min_y)

InitWalk ==
    /\ pc = "walk"
    /\ term_w \in MinTerm..MaxTermW
    /\ term_h \in MinTerm..MaxTermH
    /\ max_x = U16Sub(term_w, 2)
    /\ max_y = U16Sub(term_h, 2)
    /\ \E c \in Target_new(min_x, max_x - 1, min_y, max_y - 1) : body = <<c>>
    /\ head_dir \in Directions
    /\ score = 0
    /\ target = NoCell
    /\ update_target_position = FALSE
    /\ game_over = FALSE
    /\ raw_mode = FALSE /\ alt_screen = FALSE /\ cursor_hidden = FALSE
    /\ diagnostic = FALSE
    /\ key = "none" /\ failed = FALSE /\ rendered = FALSE /\ next_hit = FALSE
    /\ tick0 = Snapshot
    /\ delay_in = 0 /\ delay_out = NoDelay

WalkStep ==
    /\ pc = "walk"
    /\ Len(body) <= WalkSteps(head_dir)
    /\ body' = snake_new_head(body, head_dir)
    /\ UNCHANGED <<pc, term_w, term_h, max_x, max_y, head_dir, score, target,
                   update_target_position, game_over, terminal, tickvars,
                   delayvars>>

NextWalk == WalkStep

SpecWalk == InitWalk /\ [][NextWalk]_vars

\* the number of cells the head can occupy along the axis of d
AxisSize(d) == IF d \in {"Left", "Right"} THEN max_x - min_x ELSE max_y - min_y

\* C13: from every head cell and in every direction, as many steps as the
\* axis has head cells bring the head back to the start cell (so the count
\* is the same for a direction and its opposite).
C13_WrapReturnsToStart ==
    (pc = "walk" /\ Len(body) = AxisSize(head_dir) + 1) =>
        body[1] = body[Len(body)]

\* C14: a tick that begins in GameOver and processes no Enter neither clears
\* and redraws the frame nor draws the banner.
C14_FrozenScreenInGameOver ==
    (EndOfTick /\ tick0.game_over /\ key # "enter") => (~rendered /\ ~failed)

Ended == pc \in {"exit", "panic"}

\* C15: when the process has ended, by Quit, after a loop error or by a
\* failure at startup, the cursor is shown, the alternate screen is left and
\* raw mode is off.
C15_TerminalRestoredOnExit ==
    Ended => (~raw_mode /\ ~alt_screen /\ ~cursor_hidden)

\* C16: the diagnostic is written only when the alternate screen has been
\* left and raw mode is off.
C16_DiagnosticAfterRestore ==
    [][ (~diagnostic /\ diagnostic') => (~raw_mode /\ ~alt_screen) ]_vars

WorldBuilt == max_x > 0

HeadCells == Target_new(min_x, max_x - 1, min_y, max_y - 1)

BoardNotFull == \E c \in HeadCells : ~OnBody(c)

\* C17: when a render pass in Playing starts with the target dirty and some
\* head cell off the body, the resample loop can end: some cell it samples
\* is off the body.
C17_RespawnCanEnd ==
    (pc = "refresh" /\ ~game_over /\ update_target_position /\ BoardNotFull) =>
        draw_target(body, target, update_target_position) # {}

\* C18: once the world is built the body is score + 2 cells long, and the
\* score changes only by +1 in check_collision on the target cell or to 0 in
\* the Enter arm.
C18_LengthIsScorePlusTwo ==
    [][ /\ (WorldBuilt' => Len(body') = score' + 2)
        /\ (score' # score =>
               \/ (score' = score + 1 /\ pc = "collision" /\ body[1] = target)
               \/ (score' = 0 /\ pc = "keypress" /\ key' = "enter")) ]_vars

\* a game over with a score, and a restart from a game with a score
C18_Witness ==
    /\ pc = "move" /\ key = "enter"
    /\ tick0.game_over /\ tick0.score > 0 /\ Len(tick0.body) = tick0.score + 2
    /\ score = 0 /\ Len(body) = 2

InRange(c) ==
    /\ min_x <= c[1] /\ c[1] <= max_x - 1
    /\ min_y <= c[2] /\ c[2] <= max_y - 1

\* the next head in unbounded integers
PlainNewHead(h, d) ==
    CASE d = "Up" -> IF h[2] = min_y THEN <<h[1], max_y - 1>> ELSE <<h[1], h[2] - 1>>
      [] d = "Down" -> IF h[2] = max_y - 1 THEN <<h[1], min_y + 1>> ELSE <<h[1], h[2] + 1>>
      [] d = "Left" -> IF h[1] = min_x THEN <<max_x - 1, h[2]>> ELSE <<h[1] - 1, h[2]>>
      [] d = "Right" -> IF h[1] = max_x - 1 THEN <<min_x + 1, h[2]>> ELSE <<h[1] + 1, h[2]>>

\* C19: once the world is built every body cell lies in min_x..max_x-1 by
\* min_y..max_y-1, and no u16 subtraction of World::new or snake_new_head
\* wraps: the bounds and every next head equal their unbounded values, with
\* the wraps to max - 1 and to min + 1.
C19_BodyInsideBoard ==
    WorldBuilt =>
        /\ \A i \in DOMAIN body : InRange(body[i])
        /\ max_x = term_w - 2 /\ max_y = term_h - 2
        /\ \A d \in Directions :
               snake_new_head(body, d)[1] = PlainNewHead(body[1], d)

\* the head has wrapped from min_x to max_x - 1
C19_Witness ==
    /\ pc = "failure" /\ head_dir = "Left"
    /\ body[1][1] = max_x - 1 /\ body[2][1] = min_x

\* C20: once the world is built the target lies in min_x..max_x-1 by
\* min_y..max_y-1.
C20_TargetInsideBoard ==
    WorldBuilt => InRange(target)

\* a respawn has put the target in the last column
C20_Witness ==
    /\ pc = "keypress" /\ rendered /\ target # tick0.target
    /\ target[1] = max_x - 1

====
